---- MODULE Spec2Model ----
(***************************************************************************)
(* Model of sisparse (src/sisparse/sisparse.go): GetCourseEvents fetches   *)
(* a course's landing page, follows the "Rozvrh" link, fetches the         *)
(* schedule page and turns the rows of its event table into groups of      *)
(* events.                                                                 *)
(*                                                                         *)
(* Text that the code only stores or compares with "" (Type, Name,         *)
(* Teacher) is a TLA+ string.  Text that the code slices or scans (the     *)
(* day-time cell, the duration cell) is a sequence of runes, one string    *)
(* per rune; a rune outside ASCII is written as its base letter followed   *)
(* by its accent: "U'" is U-acute, "C^" is C-caron, "a'" is a-acute,       *)
(* "e'" is e-acute.                                                        *)
(***************************************************************************)
EXTENDS Integers, Sequences, FiniteSets, TLC

VARIABLES
    pc,           \* position of the call of GetCourseEvents
    fetches,      \* the URLs given to http.Get so far, in order
    landingBody,  \* body of the first response:  "none" | "open" | "closed"
    scheduleBody, \* body of the second response: "none" | "open" | "closed"
    linkOk,       \* ok of scrape.Find in getRelativeScheduleUrl
    relativeScheduleUrl, \* the href of the schedule link
    scheduleUrl,  \* the absolute URL of the schedule page
    page,         \* the <tr> elements of the schedule page, in document order
    eventsTable,  \* the rows scrape.FindAll selected
    i,            \* index (1-based) of the next row of eventsTable
    loop,         \* res, group of parseCourseEvents and the panic of its loop
    ret,          \* what GetCourseEvents returned
    panicMsg      \* why the call panicked, "" if it did not

vars == <<pc, fetches, landingBody, scheduleBody, linkOk, relativeScheduleUrl,
          scheduleUrl, page, eventsTable, i, loop, ret, panicMsg>>

(***************************************************************************)
(* Bounds of the model.                                                    *)
(***************************************************************************)
MaxRows == 3

(***************************************************************************)
(* Runes and the library calls the decoders make.                          *)
(***************************************************************************)
Digits == <<"0", "1", "2", "3", "4", "5", "6", "7", "8", "9">>

isDigit(s, k) == k <= Len(s) /\ \E d \in 1..Len(Digits) : Digits[d] = s[k]

digitVal(c) == (CHOOSE d \in 1..Len(Digits) : Digits[d] = c) - 1

isSpace(c) == c \in {" ", "\t", "\n"}

\* s[from:] of Go, from counted from 0; defined for from <= len(s).
SliceFrom(s, from) == SubSeq(s, from + 1, Len(s))

\* s[:to] of Go; defined for to <= len(s).
SliceTo(s, to) == SubSeq(s, 1, to)

\* getnum of package time: one or two digits (exactly two when fixed).
getnum(s, fixed) ==
    IF ~isDigit(s, 1) THEN [ok |-> FALSE, val |-> 0, rest |-> s]
    ELSE IF ~isDigit(s, 2)
         THEN IF fixed THEN [ok |-> FALSE, val |-> 0, rest |-> s]
              ELSE [ok |-> TRUE, val |-> digitVal(s[1]), rest |-> SliceFrom(s, 1)]
         ELSE [ok |-> TRUE, val |-> digitVal(s[1]) * 10 + digitVal(s[2]),
               rest |-> SliceFrom(s, 2)]

\* time.Parse("15:04", value): the hour (1 or 2 digits, below 24), a colon,
\* the minute (2 digits, below 60) and nothing more.  The result is the
\* number of minutes after the instant "00:00" parses to.
timeParse(value) ==
    LET h == getnum(value, FALSE) IN
    IF ~h.ok \/ h.val >= 24 THEN [ok |-> FALSE, val |-> 0]
    ELSE IF Len(h.rest) = 0 \/ h.rest[1] # ":" THEN [ok |-> FALSE, val |-> 0]
    ELSE LET m == getnum(SliceFrom(h.rest, 1), TRUE) IN
         IF ~m.ok \/ m.val >= 60 \/ Len(m.rest) # 0 THEN [ok |-> FALSE, val |-> 0]
         ELSE [ok |-> TRUE, val |-> h.val * 60 + m.val]

RECURSIVE allDigits(_)
allDigits(s) == Len(s) = 0 \/ (isDigit(s, 1) /\ allDigits(Tail(s)))

RECURSIVE decimal(_, _)
decimal(s, acc) ==
    IF Len(s) = 0 THEN acc ELSE decimal(Tail(s), acc * 10 + digitVal(s[1]))

\* strconv.Atoi: an optional sign, then one or more decimal digits.
Atoi(s) ==
    LET signed == Len(s) > 0 /\ s[1] \in {"+", "-"}
        body == IF signed THEN Tail(s) ELSE s
    IN  IF Len(body) = 0 \/ ~allDigits(body) THEN [ok |-> FALSE, val |-> 0]
        ELSE [ok |-> TRUE,
              val |-> IF signed /\ s[1] = "-" THEN 0 - decimal(body, 0)
                      ELSE decimal(body, 0)]

\* strings.Fields: the maximal runs of non-space runes, in order.
RECURSIVE fieldsFrom(_, _, _)
fieldsFrom(s, cur, out) ==
    IF Len(s) = 0 THEN (IF Len(cur) > 0 THEN Append(out, cur) ELSE out)
    ELSE IF isSpace(s[1])
         THEN fieldsFrom(Tail(s), <<>>, IF Len(cur) > 0 THEN Append(out, cur) ELSE out)
         ELSE fieldsFrom(Tail(s), Append(cur, s[1]), out)

Fields(s) == fieldsFrom(s, <<>>, <<>>)

(***************************************************************************)
(* Event and its zero value Event{}.  A time.Time is the number of minutes *)
(* after the instant time.Parse gives "00:00" (1 January of year 0); the   *)
(* zero time.Time is 1 January of year 1, one leap year later.             *)
(***************************************************************************)
ZeroTime == 366 * 24 * 60

ZeroEvent ==
    [Type |-> "", Name |-> "", Teacher |-> "", Day |-> 0,
     TimeFrom |-> ZeroTime, TimeTo |-> ZeroTime, WeekParity |-> 0]

(***************************************************************************)
(* The decoders.  Each returns [ok, ...]; ok = FALSE is a panic, whose     *)
(* message is msg.                                                         *)
(***************************************************************************)
days == << <<"P", "o">>, <<"U'", "t">>, <<"S", "t">>, <<"C^", "t">>, <<"P", "a'">> >>

Liche == <<"L", "i", "c", "h", "e'">>

parseDay(day) ==
    IF \E d \in 1..Len(days) : days[d] = day
    THEN [ok |-> TRUE, val |-> (CHOOSE d \in 1..Len(days) : days[d] = day) - 1, msg |-> ""]
    ELSE [ok |-> FALSE, val |-> 0, msg |-> "Unknown day"]

parseDurationAndWeekParity(dur) ==
    LET w == Fields(dur) IN
    IF Len(w) = 0 THEN [ok |-> FALSE, d |-> 0, parity |-> 0, msg |-> "index out of range"]
    ELSE LET d == Atoi(w[1]) IN
         IF ~d.ok THEN [ok |-> FALSE, d |-> 0, parity |-> 0, msg |-> "Unable to parse duration"]
         ELSE [ok |-> TRUE, d |-> d.val,
               parity |-> IF Len(w) > 1 THEN (IF w[2] = Liche THEN 1 ELSE 2) ELSE 0,
               msg |-> ""]

\* The event e with Day, TimeFrom, TimeTo and WeekParity filled in.
addEventScheduling(e, daytime, dur) ==
    IF Len(daytime) < 2 THEN [ok |-> FALSE, e |-> e, msg |-> "slice bounds out of range"]
    ELSE LET day == parseDay(SliceTo(daytime, 2)) IN
    IF ~day.ok THEN [ok |-> FALSE, e |-> e, msg |-> day.msg]
    ELSE IF Len(daytime) < 3 THEN [ok |-> FALSE, e |-> e, msg |-> "slice bounds out of range"]
    ELSE LET timeFrom == timeParse(SliceFrom(daytime, 3)) IN
    IF ~timeFrom.ok THEN [ok |-> FALSE, e |-> e, msg |-> "Unable to parse time"]
    ELSE LET dp == parseDurationAndWeekParity(dur) IN
    IF ~dp.ok THEN [ok |-> FALSE, e |-> e, msg |-> dp.msg]
    ELSE [ok |-> TRUE,
          e |-> [e EXCEPT !.Day = day.val, !.TimeFrom = timeFrom.val,
                          !.TimeTo = timeFrom.val + dp.d, !.WeekParity = dp.parity],
          msg |-> ""]

\* parseEvent without the return of Event{} for an empty teacher.
parseEvent_KeepNoTeacher(cols) ==
    IF Len(cols) < 4 THEN [ok |-> FALSE, e |-> ZeroEvent, msg |-> "index out of range"]
    ELSE LET e == [ZeroEvent EXCEPT !.Type = cols[2], !.Name = cols[3], !.Teacher = cols[4]] IN
    IF Len(cols) < 7 THEN [ok |-> FALSE, e |-> ZeroEvent, msg |-> "index out of range"]
    ELSE addEventScheduling(e, cols[5], cols[7])

\* parseEvent that decodes the scheduling before it looks at the teacher.
parseEvent_DecodeFirst(cols) ==
    IF Len(cols) < 7 THEN [ok |-> FALSE, e |-> ZeroEvent, msg |-> "index out of range"]
    ELSE LET e == [ZeroEvent EXCEPT !.Type = cols[2], !.Name = cols[3], !.Teacher = cols[4]]
             s == addEventScheduling(e, cols[5], cols[7])
         IN  IF ~s.ok THEN s
             ELSE IF e.Teacher = "" THEN [ok |-> TRUE, e |-> ZeroEvent, msg |-> ""]
             ELSE s

\* parseEvent of a row, given as cols, the texts of its cells (cols[k] of
\* the code is cols[k + 1] here).
parseEvent(cols) ==
    IF Len(cols) < 4 THEN [ok |-> FALSE, e |-> ZeroEvent, msg |-> "index out of range"]
    ELSE LET e == [ZeroEvent EXCEPT !.Type = cols[2], !.Name = cols[3], !.Teacher = cols[4]] IN
    IF e.Teacher = "" THEN [ok |-> TRUE, e |-> ZeroEvent, msg |-> ""]
    ELSE IF Len(cols) < 7 THEN [ok |-> FALSE, e |-> ZeroEvent, msg |-> "index out of range"]
    ELSE addEventScheduling(e, cols[5], cols[7])

(***************************************************************************)
(* parseCourseEvents: the selection of the rows and the grouping loop.     *)
(* A <tr> element is [class, tableId, cols]: its class attribute, the id   *)
(* attribute of its grandparent ("" when there is none) and the texts of   *)
(* its cells.                                                              *)
(***************************************************************************)
\* matcher without the test that leaves the header row out.
matcher_AnyClass(n) == n.tableId = "table1"

matcher(n) == n.tableId = "table1" /\ n.class # "head1"

\* flush that puts the group in front of res.
flush_Front(r, g) == IF Len(g) > 0 THEN <<g>> \o r ELSE r

\* if len(group) > 0 { res = append(res, group) }
flush(r, g) == IF Len(g) > 0 THEN Append(r, g) ELSE r

\* The state of the loop: res, group, and the panic that ended it, if any.
LoopStart == [res |-> <<>>, group |-> <<>>, panic |-> ""]

\* loopBody that fills in the Name of a continuation row, not its Teacher.
loopBody_KeepTeacher(st, cols) ==
    LET p == parseEvent(cols) IN
    IF ~p.ok THEN [st EXCEPT !.panic = p.msg]
    ELSE IF p.e = ZeroEvent THEN st
    ELSE IF p.e.Name # ""
         THEN [st EXCEPT !.res = flush(st.res, st.group), !.group = <<p.e>>]
         ELSE IF Len(st.group) = 0 THEN [st EXCEPT !.panic = "index out of range"]
              ELSE [st EXCEPT !.group = Append(st.group,
                        [p.e EXCEPT !.Name = st.group[1].Name])]

\* loopBody that skips a row that does not decode.
loopBody_SkipUndecodable(st, cols) ==
    LET p == parseEvent(cols) IN
    IF ~p.ok THEN st
    ELSE IF p.e = ZeroEvent THEN st
    ELSE IF p.e.Name # ""
         THEN [st EXCEPT !.res = flush(st.res, st.group), !.group = <<p.e>>]
         ELSE IF Len(st.group) = 0 THEN [st EXCEPT !.panic = "index out of range"]
              ELSE [st EXCEPT !.group = Append(st.group,
                        [p.e EXCEPT !.Name = st.group[1].Name,
                                    !.Teacher = st.group[1].Teacher])]

\* loopBody that appends a continuation row as it is when group is empty.
loopBody_TolerateOrphan(st, cols) ==
    LET p == parseEvent(cols) IN
    IF ~p.ok THEN [st EXCEPT !.panic = p.msg]
    ELSE IF p.e = ZeroEvent THEN st
    ELSE IF p.e.Name # ""
         THEN [st EXCEPT !.res = flush(st.res, st.group), !.group = <<p.e>>]
         ELSE IF Len(st.group) = 0 THEN [st EXCEPT !.group = <<p.e>>]
              ELSE [st EXCEPT !.group = Append(st.group,
                        [p.e EXCEPT !.Name = st.group[1].Name,
                                    !.Teacher = st.group[1].Teacher])]

\* One iteration of the loop over eventsTable, for the row with cells cols.
loopBody(st, cols) ==
    LET p == parseEvent(cols) IN
    IF ~p.ok THEN [st EXCEPT !.panic = p.msg]
    ELSE IF p.e = ZeroEvent THEN st
    ELSE IF p.e.Name # ""
         THEN [st EXCEPT !.res = flush(st.res, st.group), !.group = <<p.e>>]
         ELSE IF Len(st.group) = 0 THEN [st EXCEPT !.panic = "index out of range"]
              ELSE [st EXCEPT !.group = Append(st.group,
                        [p.e EXCEPT !.Name = st.group[1].Name,
                                    !.Teacher = st.group[1].Teacher])]

\* The loop over a sequence of rows; it stops at the first panic.
RECURSIVE loopFrom(_, _)
loopFrom(st, rows) ==
    IF st.panic # "" \/ Len(rows) = 0 THEN st
    ELSE loopFrom(loopBody(st, rows[1].cols), Tail(rows))

\* What parseCourseEvents does with the selected rows: the groups it
\* returns, or the panic it ends in.
parseRows(rows) ==
    IF Len(rows) = 0 THEN [panic |-> "", groups |-> <<>>]
    ELSE LET st == loopFrom(LoopStart, rows) IN
         IF st.panic # "" THEN [panic |-> st.panic, groups |-> <<>>]
         ELSE [panic |-> "", groups |-> flush(st.res, st.group)]

(***************************************************************************)
(* The pages the server may answer with.                                   *)
(***************************************************************************)
Names == {"", "A", "B"}

Teachers == {"", "T", "U"}

Po0800 == <<"P", "o", " ", "0", "8", ":", "0", "0">>

Xx0800 == <<"X", "x", " ", "0", "8", ":", "0", "0">>

Ut8h == <<"U'", "t", " ", "8", "h">>

St1040 == <<"S", "t", " ", "1", "0", ":", "4", "0">>

Ct1220 == <<"C^", "t", " ", "1", "2", ":", "2", "0">>

Dur90 == <<"9", "0">>

DurX == <<"x">>

Dur240Liche == <<"2", "4", "0", " ", "L", "i", "c", "h", "e'">>

Dur240Sude == <<"2", "4", "0", " ", "S", "u", "d", "e'", " ", "t", "y'", "d", "n", "y">>

Cells(name, teacher, daytime, dur) == <<"", "P", name, teacher, daytime, "S3", dur>>

DataRow(name, teacher, daytime, dur) ==
    [class |-> "row1", tableId |-> "table1", cols |-> Cells(name, teacher, daytime, dur)]

HeaderRow ==
    [class |-> "head1", tableId |-> "table1",
     cols |-> <<"", "Typ", "Nazev", "Ucitel", <<"C^", "a", "s">>, "Mistnost",
                <<"D", "e'", "l", "k", "a">> >>]

OtherTableRow ==
    [class |-> "row1", tableId |-> "table2", cols |-> Cells("B", "U", Po0800, Dur90)]

ShortRow == [class |-> "row1", tableId |-> "table1", cols |-> <<"Rozvrh nenalezen">>]

\* Every name with every teacher, decodable; rows with an unknown day, a
\* malformed time and a non-numeric duration; rows of odd and of even weeks;
\* the header row, a row of another table and a row of a single cell.
TableRows ==
    {DataRow(n, t, Po0800, Dur90) : n \in Names, t \in Teachers}
    \cup {DataRow("A", "", Xx0800, Dur90),
          DataRow("", "", Xx0800, DurX),
          DataRow("A", "T", Xx0800, Dur90),
          DataRow("", "U", Xx0800, Dur90),
          DataRow("B", "U", Ut8h, Dur90),
          DataRow("", "T", St1040, DurX),
          DataRow("", "U", Ct1220, Dur240Liche),
          DataRow("B", "T", St1040, Dur240Sude),
          HeaderRow, OtherTableRow, ShortRow}

SeqsUpTo(S, n) == UNION {[1..k -> S] : k \in 0..n}

Pages == SeqsUpTo(TableRows, MaxRows)

\* The <a> elements of a landing page: [text, href].
Anchors ==
    {[text |-> "Rozvrh", href |-> "/studium/rozvrhng/roz_predmet_macro.php?x=1"],
     [text |-> "Rozvrh", href |-> "%zz"],
     [text |-> "Sylabus", href |-> "/studium/predmety/sylabus.php"]}

LandingPages == SeqsUpTo(Anchors, 2)

(***************************************************************************)
(* GetCourseEvents.                                                        *)
(***************************************************************************)
sisHost == "https://is.cuni.cz"

sisUrl(courseCode) ==
    sisHost \o "/studium/predmety/index.php?do=predmet&kod=" \o courseCode
            \o "&skr=2018&sem=1"

CourseCodes == {"NPRG030"}

scheduleLinkText == "Rozvrh"

\* url.Parse of the hrefs of Anchors: a "%" that no two hex digits follow
\* is an invalid escape.
urlParses(u) == u # "%zz"

\* baseUrl.ResolveReference(relativeUrl) for a reference that is an absolute
\* path: the scheme and host of the base, the path and query of the reference.
getAbsoluteUrl(relative) == sisHost \o relative

\* scrape.Find: the first <a> whose text is the schedule link's text.
FindLink(anchors) ==
    LET hits == {k \in 1..Len(anchors) : anchors[k].text = scheduleLinkText} IN
    IF hits = {} THEN [ok |-> FALSE, href |-> ""]
    ELSE [ok |-> TRUE, href |-> anchors[CHOOSE k \in hits : \A j \in hits : k <= j].href]

NoReturn == [returned |-> FALSE, isNil |-> TRUE, groups |-> <<>>, err |-> ""]

ReturnErr(e) == [returned |-> TRUE, isNil |-> TRUE, groups |-> <<>>, err |-> e]

ReturnGroups(g) == [returned |-> TRUE, isNil |-> FALSE, groups |-> g, err |-> ""]

Init ==
    /\ pc = "start"
    /\ fetches = <<>>
    /\ landingBody = "none"
    /\ scheduleBody = "none"
    /\ linkOk = FALSE
    /\ relativeScheduleUrl = ""
    /\ scheduleUrl = ""
    /\ page = <<>>
    /\ eventsTable = <<>>
    /\ i = 0
    /\ loop = LoopStart
    /\ ret = NoReturn
    /\ panicMsg = ""

\* resp, err := http.Get(fmt.Sprintf(sisUrl, courseCode))
GetLanding ==
    /\ pc = "start"
    /\ \E courseCode \in CourseCodes : fetches' = Append(fetches, sisUrl(courseCode))
    /\ \/ /\ landingBody' = "open"
          /\ pc' = "landing"
          /\ ret' = ret
       \/ /\ landingBody' = landingBody
          /\ pc' = "returned"
          /\ ret' = ReturnErr("transport")
    /\ UNCHANGED <<scheduleBody, linkOk, relativeScheduleUrl, scheduleUrl, page,
                   eventsTable, i, loop, panicMsg>>

\* GetRelativeScheduleUrl whose caller goes on when the link was not found.
GetRelativeScheduleUrl_IgnoreErr ==
    /\ pc = "landing"
    /\ \/ /\ pc' = "panicked"
          /\ panicMsg' = "html.Parse"
          /\ UNCHANGED <<linkOk, relativeScheduleUrl, ret>>
       \/ \E anchors \in LandingPages :
             LET found == FindLink(anchors) IN
             /\ linkOk' = found.ok
             /\ relativeScheduleUrl' = found.href
             /\ pc' = "resolve"
             /\ ret' = ret
             /\ panicMsg' = panicMsg
    /\ UNCHANGED <<fetches, landingBody, scheduleBody, scheduleUrl, page,
                   eventsTable, i, loop>>

\* relativeScheduleUrl, err := getRelativeScheduleUrl(resp.Body)
GetRelativeScheduleUrl ==
    /\ pc = "landing"
    /\ \/ \* html.Parse fails: reading the body failed
          /\ pc' = "panicked"
          /\ panicMsg' = "html.Parse"
          /\ UNCHANGED <<linkOk, relativeScheduleUrl, ret>>
       \/ \E anchors \in LandingPages :
             LET found == FindLink(anchors) IN
             /\ linkOk' = found.ok
             /\ relativeScheduleUrl' = found.href
             /\ IF found.ok
                THEN pc' = "resolve" /\ ret' = ret
                ELSE pc' = "returned" /\ ret' = ReturnErr("Couldn't find schedule URL")
             /\ panicMsg' = panicMsg
    /\ UNCHANGED <<fetches, landingBody, scheduleBody, scheduleUrl, page,
                   eventsTable, i, loop>>

\* scheduleUrl := getAbsoluteUrl(sisUrl, relativeScheduleUrl)
GetAbsoluteUrl ==
    /\ pc = "resolve"
    /\ IF urlParses(relativeScheduleUrl)
       THEN /\ scheduleUrl' = getAbsoluteUrl(relativeScheduleUrl)
            /\ pc' = "fetch"
            /\ panicMsg' = panicMsg
       ELSE /\ scheduleUrl' = scheduleUrl
            /\ pc' = "panicked"
            /\ panicMsg' = "url.Parse"
    /\ UNCHANGED <<fetches, landingBody, scheduleBody, linkOk, relativeScheduleUrl,
                   page, eventsTable, i, loop, ret>>

\* resp, err = http.Get(scheduleUrl)
GetSchedule ==
    /\ pc = "fetch"
    /\ fetches' = Append(fetches, scheduleUrl)
    /\ \/ /\ scheduleBody' = "open"
          /\ pc' = "schedule"
          /\ ret' = ret
       \/ /\ scheduleBody' = scheduleBody
          /\ pc' = "returned"
          /\ ret' = ReturnErr("transport")
    /\ UNCHANGED <<landingBody, linkOk, relativeScheduleUrl, scheduleUrl, page,
                   eventsTable, i, loop, panicMsg>>

\* parseCourseEvents up to its loop: html.Parse, scrape.FindAll and the
\* return of no groups when no row matches.
FindEventsTable ==
    /\ pc = "schedule"
    /\ \/ \* html.Parse fails: reading the body failed
          /\ pc' = "panicked"
          /\ panicMsg' = "html.Parse"
          /\ UNCHANGED <<page, eventsTable, i, ret>>
       \/ \E p \in Pages :
             /\ page' = p
             /\ eventsTable' = SelectSeq(p, matcher)
             /\ IF Len(eventsTable') = 0
                THEN pc' = "returned" /\ ret' = ReturnGroups(<<>>) /\ i' = i
                ELSE pc' = "loop" /\ ret' = ret /\ i' = 1
             /\ panicMsg' = panicMsg
    /\ loop' = LoopStart
    /\ UNCHANGED <<fetches, landingBody, scheduleBody, linkOk, relativeScheduleUrl,
                   scheduleUrl>>

\* One iteration of for _, row := range eventsTable.
LoopIteration ==
    /\ pc = "loop"
    /\ i <= Len(eventsTable)
    /\ loop' = loopBody(loop, eventsTable[i].cols)
    /\ IF loop'.panic # ""
       THEN pc' = "panicked" /\ panicMsg' = loop'.panic /\ i' = i
       ELSE pc' = pc /\ panicMsg' = panicMsg /\ i' = i + 1
    /\ UNCHANGED <<fetches, landingBody, scheduleBody, linkOk, relativeScheduleUrl,
                   scheduleUrl, page, eventsTable, ret>>

\* The end of the loop: the last group is flushed and res is returned.
LoopExit ==
    /\ pc = "loop"
    /\ i > Len(eventsTable)
    /\ loop' = [loop EXCEPT !.res = flush(loop.res, loop.group)]
    /\ ret' = ReturnGroups(loop'.res)
    /\ pc' = "returned"
    /\ UNCHANGED <<fetches, landingBody, scheduleBody, linkOk, relativeScheduleUrl,
                   scheduleUrl, page, eventsTable, i, panicMsg>>

Next ==
    \/ GetLanding
    \/ GetRelativeScheduleUrl
    \/ GetAbsoluteUrl
    \/ GetSchedule
    \/ FindEventsTable
    \/ LoopIteration
    \/ LoopExit

Spec == Init /\ [][Next]_vars

TypeOK ==
    /\ pc \in {"start", "landing", "resolve", "fetch", "schedule", "loop",
               "returned", "panicked"}
    /\ Len(fetches) <= 2
    /\ landingBody \in {"none", "open", "closed"}
    /\ scheduleBody \in {"none", "open", "closed"}
    /\ linkOk \in BOOLEAN
    /\ i \in 0..(Len(eventsTable) + 1)
    /\ (pc = "panicked") = (panicMsg # "")
    /\ (pc = "returned") = ret.returned

(***************************************************************************)
(* Vocabulary of the properties.                                           *)
(***************************************************************************)
\* The call ended, by a return or by a panic.
Terminated == pc \in {"returned", "panicked"}

\* parseCourseEvents returned to GetCourseEvents, which returned its groups.
ParseReturned == pc = "returned" /\ ret.err = ""

\* The loop of parseCourseEvents panicked.
LoopPanicked == pc = "panicked" /\ i >= 1

\* The call ended after scrape.FindAll selected eventsTable.
TableRead == ParseReturned \/ LoopPanicked

\* How the call ended: the groups returned, or the panic.
Outcome == [panic |-> panicMsg, groups |-> ret.groups]

HasFields(r) == Len(r.cols) = 7

NameOf(r) == r.cols[3]

TeacherOf(r) == r.cols[4]

\* A row whose teacher cell is empty.
EmptyTeacher(r) == Len(r.cols) >= 4 /\ TeacherOf(r) = ""

\* A row that parseEvent turns into an event: it has a teacher and decodes.
Qualifies(r) == parseEvent(r.cols).ok /\ parseEvent(r.cols).e # ZeroEvent

RECURSIVE Flatten(_)
Flatten(groups) ==
    IF Len(groups) = 0 THEN <<>> ELSE groups[1] \o Flatten(Tail(groups))

\* The index in Flatten(groups) of the first event of group g.
RECURSIVE StartOf(_, _)
StartOf(groups, g) ==
    IF g = 1 THEN 1 ELSE StartOf(groups, g - 1) + Len(groups[g - 1])

Unnamed(e) == [e EXCEPT !.Name = "", !.Teacher = ""]

AllEvents(groups) ==
    UNION {{groups[g][k] : k \in 1..Len(groups[g])} : g \in 1..Len(groups)}

(***************************************************************************)
(* C1.  Whenever parseCourseEvents returns, every group of the result is   *)
(* non-empty and every event of every group has a non-empty Name and a     *)
(* non-empty Teacher.                                                      *)
(***************************************************************************)
C1_GroupsWellFormed ==
    ParseReturned =>
        \A g \in 1..Len(ret.groups) :
            /\ Len(ret.groups[g]) > 0
            /\ \A k \in 1..Len(ret.groups[g]) :
                  ret.groups[g][k].Name # "" /\ ret.groups[g][k].Teacher # ""

\* Two groups are returned, one of them with a back-filled continuation row.
C1_Witness ==
    /\ ParseReturned
    /\ Len(ret.groups) = 2
    /\ \E g \in 1..2 : Len(ret.groups[g]) = 2
    /\ \E k \in 1..Len(page) : HasFields(page[k]) /\ NameOf(page[k]) = ""
                               /\ TeacherOf(page[k]) # ""

(***************************************************************************)
(* C2, as stated.  If exactly one of the rows has a non-empty name and all *)
(* the others a blank one, parseCourseEvents returns exactly one group,    *)
(* and every member has that name and the teacher of the first row.  The   *)
(* rows are taken to be rows whose day-time and duration cells decode, the *)
(* reading most favourable to the statement.                               *)
(***************************************************************************)
Decodable(r) == HasFields(r) /\ addEventScheduling(ZeroEvent, r.cols[5], r.cols[7]).ok

C2_AsStated ==
    (/\ TableRead
     /\ Len(eventsTable) >= 1
     /\ \A k \in 1..Len(eventsTable) : Decodable(eventsTable[k])
     /\ Cardinality({k \in 1..Len(eventsTable) : NameOf(eventsTable[k]) # ""}) = 1)
    => /\ ParseReturned
       /\ Len(ret.groups) = 1
       /\ \A e \in AllEvents(ret.groups) :
             /\ \E k \in 1..Len(eventsTable) : e.Name = NameOf(eventsTable[k]) /\ e.Name # ""
             /\ e.Teacher = TeacherOf(eventsTable[1])

(***************************************************************************)
(* C2, amended.  If the first row has a non-empty name and a non-empty     *)
(* teacher, every other row has a blank name, and every row with a teacher *)
(* decodes, parseCourseEvents returns exactly one group, and every member  *)
(* has the first row's name and the first row's teacher, whatever its own  *)
(* teacher cell held.                                                      *)
(***************************************************************************)
C2_Run ==
    /\ Len(eventsTable) >= 1
    /\ \A k \in 1..Len(eventsTable) : HasFields(eventsTable[k])
    /\ NameOf(eventsTable[1]) # ""
    /\ TeacherOf(eventsTable[1]) # ""
    /\ \A k \in 2..Len(eventsTable) : NameOf(eventsTable[k]) = ""
    /\ \A k \in 1..Len(eventsTable) :
          TeacherOf(eventsTable[k]) # "" => parseEvent(eventsTable[k].cols).ok

C2_OneGroupPerRun ==
    (TableRead /\ C2_Run)
    => /\ ParseReturned
       /\ Len(ret.groups) = 1
       /\ Len(ret.groups[1]) >= 1
       /\ \A k \in 1..Len(ret.groups[1]) :
             /\ ret.groups[1][k].Name = NameOf(eventsTable[1])
             /\ ret.groups[1][k].Teacher = TeacherOf(eventsTable[1])

\* A run of three rows, one continuation row naming another teacher than
\* the first row.
C2_Witness ==
    /\ ParseReturned
    /\ C2_Run
    /\ Len(eventsTable) = 3
    /\ Len(ret.groups[1]) = 3
    /\ \E k \in 2..3 : TeacherOf(eventsTable[k]) # TeacherOf(eventsTable[1])

(***************************************************************************)
(* C3.  parseEvent turns every row with an empty teacher cell into the     *)
(* zero Event, whatever its other cells hold, and the loop skips it: at    *)
(* every point of the loop res and group are what they would be without    *)
(* the empty-teacher rows seen so far, and the call ends as it would on    *)
(* the table without its empty-teacher rows.                               *)
(***************************************************************************)
WithoutEmptyTeacher(rows) == SelectSeq(rows, LAMBDA r : ~EmptyTeacher(r))

C3_EmptyTeacherSkipped ==
    /\ \A k \in 1..Len(eventsTable) :
          EmptyTeacher(eventsTable[k]) =>
              parseEvent(eventsTable[k].cols) = [ok |-> TRUE, e |-> ZeroEvent, msg |-> ""]
    /\ pc = "loop" =>
          loop = loopFrom(LoopStart, WithoutEmptyTeacher(SubSeq(eventsTable, 1, i - 1)))
    /\ TableRead => Outcome = parseRows(WithoutEmptyTeacher(eventsTable))

\* A named row without teacher and with an unknown day stands between a
\* group's first row and its continuation row; one group of two is returned.
C3_Witness ==
    /\ ParseReturned
    /\ Len(eventsTable) = 3
    /\ EmptyTeacher(eventsTable[2])
    /\ NameOf(eventsTable[2]) # ""
    /\ eventsTable[2].cols[5] = Xx0800
    /\ Len(ret.groups) = 1
    /\ Len(ret.groups[1]) = 2

(***************************************************************************)
(* C4.  The events of the returned groups, in order, are the events of the *)
(* qualifying rows, in row order (a continuation row's with Name and       *)
(* Teacher filled in); a group starts at exactly the qualifying rows with  *)
(* a non-empty name, and there are as many groups as such rows.            *)
(***************************************************************************)
QualifyingEvents ==
    LET q == SelectSeq(eventsTable, Qualifies)
    IN  [k \in 1..Len(q) |-> parseEvent(q[k].cols).e]

C4_RowOrderPartition ==
    ParseReturned =>
        LET Q == QualifyingEvents
            F == Flatten(ret.groups)
            named == {k \in 1..Len(Q) : Q[k].Name # ""}
        IN  /\ Len(F) = Len(Q)
            /\ \A k \in 1..Len(Q) :
                  IF k \in named THEN F[k] = Q[k] ELSE Unnamed(F[k]) = Unnamed(Q[k])
            /\ {StartOf(ret.groups, g) : g \in 1..Len(ret.groups)} = named
            /\ Len(ret.groups) = Cardinality(named)

\* Three qualifying rows in two groups, the three events pairwise different.
C4_Witness ==
    /\ ParseReturned
    /\ Len(ret.groups) = 2
    /\ Len(Flatten(ret.groups)) = 3
    /\ Cardinality({Unnamed(e) : e \in AllEvents(ret.groups)}) = 3

(***************************************************************************)
(* C5.  For a schedule table of a header row, a group's first row (name,   *)
(* teacher, day-time and duration filled) and a continuation row (name and *)
(* teacher empty, day-time and duration filled), GetCourseEvents returns   *)
(* exactly one group of two events, both with the first row's name and     *)
(* teacher.                                                                *)
(***************************************************************************)
C5_Scenario ==
    /\ Len(page) = 3
    /\ page[1] = HeaderRow
    /\ \A k \in 2..3 : page[k].tableId = "table1" /\ page[k].class # "head1"
                       /\ HasFields(page[k])
                       /\ Len(page[k].cols[5]) > 0 /\ Len(page[k].cols[7]) > 0
    /\ NameOf(page[2]) # "" /\ TeacherOf(page[2]) # ""
    /\ Qualifies(page[2])
    /\ NameOf(page[3]) = "" /\ TeacherOf(page[3]) = ""

C5_TwoEventsInOneGroup ==
    (TableRead /\ C5_Scenario)
    => /\ ParseReturned
       /\ Len(ret.groups) = 1
       /\ Len(ret.groups[1]) = 2
       /\ \A k \in 1..2 : /\ ret.groups[1][k].Name = NameOf(page[2])
                          /\ ret.groups[1][k].Teacher = TeacherOf(page[2])

(***************************************************************************)
(* C6.  When no row of the schedule page matches (none lies in the table   *)
(* with id table1, or only header rows do), and also when every matching   *)
(* row has an empty teacher cell, GetCourseEvents returns an empty, non-nil*)
(* sequence of groups and no error.                                        *)
(***************************************************************************)
NoMatchingRow ==
    \A k \in 1..Len(page) : page[k].tableId # "table1" \/ page[k].class = "head1"

OnlySentinelRows ==
    \A k \in 1..Len(page) :
        (page[k].tableId = "table1" /\ page[k].class # "head1") => EmptyTeacher(page[k])

C6_EmptyTableNoError ==
    (/\ Terminated
     /\ scheduleBody = "open"
     /\ panicMsg # "html.Parse"
     /\ NoMatchingRow \/ OnlySentinelRows)
    => ret = ReturnGroups(<<>>)

\* The page holds a header row and a row of another table, and nothing else.
C6_Witness ==
    /\ ParseReturned
    /\ Len(page) = 2
    /\ \E k \in 1..2 : page[k] = HeaderRow
    /\ \E k \in 1..2 : page[k] = OtherTableRow
    /\ eventsTable = <<>>
    /\ ret = ReturnGroups(<<>>)

(***************************************************************************)
(* C7.  The schedule page is fetched only after the landing page was       *)
(* fetched and the schedule link found in it.  When the link is not found, *)
(* the call returns the navigation error and only the landing page was     *)
(* fetched; when the first fetch fails, the call returns the transport     *)
(* error and nothing else was fetched.                                     *)
(***************************************************************************)
C7_ScheduleFetchAfterLink ==
    /\ Len(fetches) <= 2
    /\ Len(fetches) = 2 =>
          /\ landingBody = "open"
          /\ linkOk
          /\ fetches[2] = getAbsoluteUrl(relativeScheduleUrl)
          /\ fetches[2] # fetches[1]
    /\ scheduleBody # "none" => Len(fetches) = 2
    /\ (landingBody = "open" /\ ~linkOk /\ pc \notin {"landing", "panicked"}) =>
          /\ pc = "returned"
          /\ ret = ReturnErr("Couldn't find schedule URL")
          /\ Len(fetches) = 1
    /\ (landingBody = "none" /\ pc # "start") =>
          /\ pc = "returned"
          /\ ret = ReturnErr("transport")
          /\ Len(fetches) = 1

\* The call ended with the navigation error after one fetch.
C7_Witness ==
    /\ pc = "returned"
    /\ ret.err = "Couldn't find schedule URL"
    /\ landingBody = "open"
    /\ Len(fetches) = 1
    /\ scheduleBody = "none"

(***************************************************************************)
(* C8.  If some row with a teacher fails to decode (unknown day, malformed *)
(* time, non-integer duration), the call panics and returns nothing, also  *)
(* when groups were already built from the rows before the failing one.    *)
(***************************************************************************)
DecodeFails(r) == Len(r.cols) >= 4 /\ TeacherOf(r) # "" /\ ~parseEvent(r.cols).ok

C8_DecodeFailureAborts ==
    /\ (TableRead /\ \E k \in 1..Len(eventsTable) : DecodeFails(eventsTable[k]))
       => (pc = "panicked" /\ ret = NoReturn)
    /\ ret.returned => pc = "returned"

\* The third row has a malformed time; a group was already in res.
C8_Witness ==
    /\ LoopPanicked
    /\ panicMsg = "Unable to parse time"
    /\ i = 3
    /\ Len(loop.res) = 1
    /\ Len(loop.group) = 1
    /\ ret = NoReturn

(***************************************************************************)
(* C9.  When the call has ended, by a return or by a panic, no response    *)
(* body that it acquired is still open.                                    *)
(***************************************************************************)
C9_BodiesClosed ==
    Terminated => (landingBody # "open" /\ scheduleBody # "open")

(***************************************************************************)
(* C10.  A continuation row (teacher, no name) that no group's first row   *)
(* precedes makes the call panic and return nothing; no event with an      *)
(* empty Name is ever put into group, res or the result.                   *)
(***************************************************************************)
IsContinuation(r) == HasFields(r) /\ NameOf(r) = "" /\ TeacherOf(r) # ""

IsGroupStart(r) == Qualifies(r) /\ NameOf(r) # ""

OrphanContinuation ==
    \E k \in 1..Len(eventsTable) :
        /\ IsContinuation(eventsTable[k])
        /\ \A j \in 1..(k - 1) : ~IsGroupStart(eventsTable[j])

C10_OrphanContinuationAborts ==
    /\ (TableRead /\ OrphanContinuation) => (pc = "panicked" /\ ret = NoReturn)
    /\ \A e \in AllEvents(loop.res) \cup AllEvents(<<loop.group>>) \cup AllEvents(ret.groups) :
          e.Name # ""

\* The second row is a continuation row that decodes; the first was skipped.
C10_Witness ==
    /\ LoopPanicked
    /\ panicMsg = "index out of range"
    /\ i = 2
    /\ IsContinuation(eventsTable[2])
    /\ Qualifies(eventsTable[2])
    /\ loop.group = <<>>
    /\ ret = NoReturn

====
